---- MODULE Spec2Model ----
(***************************************************************************)
(* hack/upload-qiniu.py: one command-line run of the uploader, together    *)
(* with the things outside the process that it reads and writes: the       *)
(* process environment, the command line, the local file system, the       *)
(* bucket of the storage service, and the other actors that may touch the  *)
(* file system or the bucket while the run is in progress.                 *)
(*                                                                         *)
(* The script is run by its shebang line (plain `python`, assertions       *)
(* enabled) under Python 2 or Python 3, in a UTF-8 locale, with arguments  *)
(* that are valid UTF-8.  The qiniu SDK is outside the repository: its     *)
(* calls are modelled by their interface (which arguments they get, which  *)
(* results they may give), the service's answer being a nondeterministic   *)
(* choice.                                                                 *)
(***************************************************************************)
EXTENDS Integers, Sequences, FiniteSets, TLC

\* ------------------------------------------------------------------ bounds
\* The largest number of command-line arguments given to the script.
MaxArgs == 3
\* The number of distinct file contents.
NumContents == 2

\* ------------------------------------------------------- program constants
\* def upload(local_file, remote_name, ttl=3600)
DefaultTtl == 3600
\* local_file = sys.argv[1]
LocalFileIndex == 1
\* remote_name = sys.argv[2]
RemoteNameIndex == 2

\* "https://charts.pingcap.org/{}" as character codes.
UrlTemplate ==
    <<104, 116, 116, 112, 115, 58, 47, 47, 99, 104, 97, 114, 116, 115, 46,
      112, 105, 110, 103, 99, 97, 112, 46, 111, 114, 103, 47, 123, 125>>

EnvNames == {"QINIU_ACCESS_KEY", "QINIU_SECRET_KEY", "QINIU_BUCKET_NAME"}

\* --------------------------------------------------------------- the inputs
\* The script's own path, sys.argv[0] ("u").
ScriptPath == <<117>>
\* The byte strings the arguments are drawn from.  First argument:
\* "video.mp4" or "é".
LocalFilePool ==
    {<<118, 105, 100, 101, 111, 46, 109, 112, 52>>,
     <<195, 169>>}
\* Second argument: "videos/demo.mp4" or "b/é".
RemoteNamePool ==
    {<<118, 105, 100, 101, 111, 115, 47, 100, 101, 109, 111, 46, 109, 112, 52>>,
     <<98, 47, 195, 169>>}
\* Any further argument: "x".
ExtraArgPool == {<<120>>}
ArgPool(i) ==
    IF i = 1 THEN LocalFilePool
    ELSE IF i = 2 THEN RemoteNamePool
    ELSE ExtraArgPool
\* What an environment variable may hold: unset, empty, or a value.
Unset == [set |-> FALSE, v |-> << >>]
EnvValue(b) == [set |-> TRUE, v |-> b]
EnvChoices(n) ==
    {Unset, EnvValue(<< >>)} \cup
    (CASE n = "QINIU_ACCESS_KEY" -> {EnvValue(<<97, 107>>)}
       [] n = "QINIU_SECRET_KEY" -> {EnvValue(<<115, 107>>)}
       [] OTHER -> {EnvValue(<<99, 104, 97, 114, 116, 115>>)})
Contents == 1..NumContents

VARIABLES
    \* outside the process
    env,            \* the process environment: name -> Unset or a value
    pyver,          \* the interpreter's major version, 2 or 3
    sys_argv,       \* the command line as the OS gives it, script path first
    fs,             \* the local file system: path -> content (existing files)
    bucket,         \* the bucket: object key -> content (existing objects)
    \* the process
    pc,             \* the statement the run is at
    ACCESS_KEY, SECRET_KEY, BUCKET_NAME,
    local_file, remote_name, ttl, q, token, ret,
    stdout,         \* the lines printed so far
    exc,            \* the exception that ended the run, "" for none
    exit_code,      \* the exit status once pc = "exited", -1 before
    \* what an observer outside the process records
    calls,          \* the SDK's token and upload calls, in order
    callContent,    \* the content of local_file when upload() was called
    putContent,     \* the content put_file read
    checkContent,   \* the content etag() read
    bucketAtReturn, \* the object under the uploaded key when upload() returned
    otherWrote,     \* another uploader wrote that key since put_file returned
    changedAfterPut \* the file was changed since put_file read it

procVars == <<pc, ACCESS_KEY, SECRET_KEY, BUCKET_NAME, local_file, remote_name,
              ttl, q, token, ret, stdout, exc, exit_code>>
worldVars == <<env, pyver, sys_argv, fs, bucket>>
obsVars == <<calls, callContent, putContent, checkContent, bucketAtReturn,
             otherWrote, changedAfterPut>>
vars == <<worldVars, procVars, obsVars>>

\* ------------------------------------------------------------ Python values
PyNone == [t |-> "none", v |-> << >>]
Text(s) == [t |-> "text", v |-> s]
Bytes(s) == [t |-> "bytes", v |-> s]

\* qiniu.compat: is_py2 = (_ver[0] == 2), is_py3 = (_ver[0] == 3)
is_py2 == pyver = 2
is_py3 == pyver = 3

\* One code point as UTF-8 (code points below 2048).
Utf8EncodeChar(cp) ==
    IF cp < 128 THEN <<cp>> ELSE <<192 + (cp \div 64), 128 + (cp % 64)>>

\* unicode.encode('utf-8'): code points to bytes.
RECURSIVE Utf8Encode(_)
Utf8Encode(s) ==
    IF s = << >> THEN << >>
    ELSE Utf8EncodeChar(Head(s)) \o Utf8Encode(Tail(s))

\* bytes.decode('utf-8') of valid UTF-8: bytes to code points.
RECURSIVE Utf8Decode(_)
Utf8Decode(b) ==
    IF b = << >> THEN << >>
    ELSE IF b[1] < 128 THEN <<b[1]>> \o Utf8Decode(Tail(b))
    ELSE <<(b[1] - 192) * 64 + (b[2] - 128)>> \o Utf8Decode(Tail(Tail(b)))

\* A string that comes from the OS (an argument, an environment value): a
\* byte string under Python 2, decoded text under Python 3.
NativeStr(b) == IF is_py2 THEN Bytes(b) ELSE Text(Utf8Decode(b))

\* The bytes a Python string stands for outside the process (a path given to
\* open(), text written to stdout, a key sent to the service).
OsBytes(s) == IF s.t = "text" THEN Utf8Encode(s.v) ELSE s.v

IsAscii(b) == \A i \in 1..Len(b) : b[i] < 128

\* a == b on two strings.  Under Python 2 a byte string and a unicode string
\* compare by decoding the bytes as ASCII, and are unequal when that fails;
\* under Python 3 they are never equal.
PyEq(a, b) ==
    IF a.t = b.t THEN a.v = b.v
    ELSE IF a.t = "none" \/ b.t = "none" THEN FALSE
    ELSE IF is_py2
         THEN LET bs == IF a.t = "bytes" THEN a.v ELSE b.v
                  tx == IF a.t = "text" THEN a.v ELSE b.v
              IN  IsAscii(bs) /\ bs = tx
         ELSE FALSE

\* ret['key'].encode('utf-8')
PyEncodeUtf8(s) == Bytes(Utf8Encode(s.v))

\* bool(x) of None or a string.
Truthy(x) == x.t # "none" /\ x.v # << >>

\* os.getenv(name)
Getenv(n) == IF env[n].set THEN NativeStr(env[n].v) ELSE PyNone

\* sys.argv[i]
HasArgv(i) == i + 1 <= Len(sys_argv)
Argv(i) == NativeStr(sys_argv[i + 1])

\* The index of the first "{}" of a format string, 0 when there is none.
RECURSIVE FieldAt(_, _)
FieldAt(t, i) ==
    IF i + 1 > Len(t) THEN 0
    ELSE IF t[i] = 123 /\ t[i + 1] = 125 THEN i
    ELSE FieldAt(t, i + 1)

\* template.format(arg) for a template with one "{}": a str template gives a
\* string of the argument's kind.
StrFormat(t, arg) ==
    LET i == FieldAt(t, 1)
    IN  IF i = 0 THEN [arg EXCEPT !.v = t]
        ELSE [arg EXCEPT !.v = SubSeq(t, 1, i - 1) \o arg.v
                                 \o SubSeq(t, i + 2, Len(t))]

\* A line of output: what it is, and its bytes (kept for the URL line only;
\* the other lines are diagnostics).
DiagLine(k) == [kind |-> k, bytes |-> << >>]
UrlLine(s) == [kind |-> "url", bytes |-> OsBytes(s)]

\* ------------------------------------------------------------ the SDK
\* qiniu.etag of some content.  The hash is the service's own algorithm; two
\* different contents have different hashes.
ContentHash(c) == [etag |-> c]

FileExists(p) == p \in DOMAIN fs
\* The content of a file as zero or one values.
FileState(p) == IF FileExists(p) THEN <<fs[p]>> ELSE << >>
ObjectState(k) == IF k \in DOMAIN bucket THEN <<bucket[k]>> ELSE << >>

\* The object keys the service may answer with, as text.
KeyPool == {Utf8Decode(a) : a \in RemoteNamePool}
\* The key the service sees for a key the SDK is given.
WireKey(s) == Utf8Decode(OsBytes(s))

Put(f, x, y) == [z \in DOMAIN f \cup {x} |-> IF z = x THEN y ELSE f[z]]
Remove(f, x) == [z \in DOMAIN f \ {x} |-> f[z]]

\* ------------------------------------------------------------------ Init
ArgLists ==
    UNION {{a \in [1..n -> LocalFilePool \cup RemoteNamePool \cup ExtraArgPool] :
              \A i \in 1..n : a[i] \in ArgPool(i)} : n \in 0..MaxArgs}
PartialFns(D, R) == UNION {[S -> R] : S \in SUBSET D}
\* The one path the run may open: its first argument.  Other files are left
\* out of the file system.
LocalPaths(argv) == IF Len(argv) >= 2 THEN {argv[2]} ELSE {}

Init ==
    /\ env \in {e \in [EnvNames -> UNION {EnvChoices(n) : n \in EnvNames}] :
                  \A n \in EnvNames : e[n] \in EnvChoices(n)}
    /\ pyver \in {2, 3}
    /\ sys_argv \in {<<ScriptPath>> \o a : a \in ArgLists}
    /\ fs \in PartialFns(LocalPaths(sys_argv), Contents)
    /\ bucket = << >>
    /\ pc = "start"
    /\ ACCESS_KEY = PyNone /\ SECRET_KEY = PyNone /\ BUCKET_NAME = PyNone
    /\ local_file = PyNone /\ remote_name = PyNone
    /\ ttl = 0 /\ q = PyNone /\ token = PyNone /\ ret = PyNone
    /\ stdout = << >> /\ exc = "" /\ exit_code = -1
    /\ calls = << >>
    /\ callContent = << >> /\ putContent = << >> /\ checkContent = << >>
    /\ bucketAtReturn = << >> /\ otherWrote = FALSE
    /\ changedAfterPut = FALSE

\* ------------------------------------------------------------ the program
\* An exception nothing catches: the traceback is printed and the process
\* exits with status 1.
Raise(e) == pc' = "exited" /\ exc' = e /\ exit_code' = 1

\* Faulty variants: the bucket name left out; `or` for `and`.
CredentialsOkNoBucket(ak, sk, bn) == Truthy(ak) /\ Truthy(sk)
CredentialsOkAny(ak, sk, bn) == Truthy(ak) \/ Truthy(sk) \/ Truthy(bn)
\* ACCESS_KEY and SECRET_KEY and BUCKET_NAME
CredentialsOk(ak, sk, bn) == Truthy(ak) /\ Truthy(sk) /\ Truthy(bn)

\* Lines 23-27: the three environment variables are read and asserted.
LoadCredentials ==
    /\ pc = "start"
    /\ LET ak == Getenv("QINIU_ACCESS_KEY")
           sk == Getenv("QINIU_SECRET_KEY")
           bn == Getenv("QINIU_BUCKET_NAME")
       IN  /\ ACCESS_KEY' = ak /\ SECRET_KEY' = sk /\ BUCKET_NAME' = bn
           /\ IF CredentialsOk(ak, sk, bn)
              THEN pc' = "main" /\ UNCHANGED <<exc, exit_code>>
              ELSE Raise("AssertionError")
    /\ UNCHANGED <<local_file, remote_name, ttl, q, token, ret, stdout>>
    /\ UNCHANGED <<worldVars, obsVars>>

\* Faulty variant: the indices counted without the script's own path.
ArgIndicesShifted == <<LocalFileIndex - 1, RemoteNameIndex - 1>>
\* The indices the two arguments are read at.
ArgIndices == <<LocalFileIndex, RemoteNameIndex>>

\* Lines 50-51: local_file = sys.argv[1]; remote_name = sys.argv[2].
ReadArgs ==
    /\ pc = "main"
    /\ IF ~HasArgv(ArgIndices[1])
       THEN Raise("IndexError") /\ UNCHANGED <<local_file, remote_name>>
       ELSE /\ local_file' = Argv(ArgIndices[1])
            /\ IF ~HasArgv(ArgIndices[2])
               THEN Raise("IndexError") /\ UNCHANGED remote_name
               ELSE /\ remote_name' = Argv(ArgIndices[2])
                    /\ pc' = "call_upload"
                    /\ UNCHANGED <<exc, exit_code>>
    /\ UNCHANGED <<ACCESS_KEY, SECRET_KEY, BUCKET_NAME, ttl, q, token, ret,
                   stdout>>
    /\ UNCHANGED <<worldVars, obsVars>>

\* Lines 52, 32-34: upload(local_file, remote_name) is called with the
\* default ttl, echoes its arguments and builds the Auth object.
UploadBegin ==
    /\ pc = "call_upload"
    /\ ttl' = DefaultTtl
    /\ stdout' = Append(stdout, DiagLine("args"))
    /\ q' = [t |-> "auth", access_key |-> ACCESS_KEY, secret_key |-> SECRET_KEY]
    /\ callContent' = FileState(OsBytes(local_file))
    /\ pc' = "upload_token"
    /\ UNCHANGED <<ACCESS_KEY, SECRET_KEY, BUCKET_NAME, local_file, remote_name,
                   token, ret, exc, exit_code>>
    /\ UNCHANGED <<worldVars, calls, putContent, checkContent, bucketAtReturn,
                   otherWrote, changedAfterPut>>

\* Faulty variant: the token scoped to the local file's name.
TokenArgsSwapped == <<BUCKET_NAME, local_file, ttl>>
\* q.upload_token(BUCKET_NAME, remote_name, ttl): the arguments.
TokenArgs == <<BUCKET_NAME, remote_name, ttl>>

\* Line 36: the token is issued for (bucket, key, ttl) by q, or the SDK
\* raises.
UploadToken ==
    /\ pc = "upload_token"
    /\ calls' = Append(calls, [fn |-> "upload_token", args |-> TokenArgs])
    /\ \/ /\ token' = [t |-> "token", by |-> q, scope |-> TokenArgs]
          /\ pc' = "put_file"
          /\ UNCHANGED <<exc, exit_code>>
       \/ /\ Raise("SdkError")
          /\ UNCHANGED token
    /\ UNCHANGED <<ACCESS_KEY, SECRET_KEY, BUCKET_NAME, local_file, remote_name,
                   ttl, q, ret, stdout>>
    /\ UNCHANGED <<worldVars, callContent, putContent, checkContent,
                   bucketAtReturn, otherWrote, changedAfterPut>>

\* put_file(token, remote_name, local_file): the arguments.
PutFileArgs == <<token, remote_name, local_file>>

\* Faulty variant: a failed upload starts over from the token.
PutFileReturnsRetry(r) ==
    IF r.t = "none"
    THEN pc' = "upload_token" /\ UNCHANGED ret
    ELSE ret' = r /\ pc' = "check_key"
\* ret, info = put_file(...): the assignment, and on to line 39.
PutFileReturns(r) == ret' = r /\ pc' = "check_key"

\* Line 38: the SDK opens the file (IOError when it is missing), sends it,
\* and gives the service's answer: no result (ret is None) on a failure, or
\* the key and hash of the object the service stored.  The service is not
\* trusted: the key and the content it stored are any key and any content.
PutFile ==
    /\ pc = "put_file"
    /\ calls' = Append(calls, [fn |-> "put_file", args |-> PutFileArgs])
    /\ LET path == OsBytes(PutFileArgs[3])
       IN  IF ~FileExists(path)
           THEN /\ Raise("IOError")
                /\ UNCHANGED <<ret, bucket, putContent>>
           ELSE /\ putContent' = <<fs[path]>>
                /\ \/ /\ Raise("SdkError")
                      /\ UNCHANGED <<ret, bucket>>
                   \/ /\ PutFileReturns(PyNone)
                      /\ UNCHANGED <<bucket, exc, exit_code>>
                   \/ \E k \in KeyPool, c \in Contents :
                        /\ bucket' = Put(bucket, k, c)
                        /\ PutFileReturns([t |-> "dict", key |-> Text(k),
                                           hash |-> ContentHash(c)])
                        /\ UNCHANGED <<exc, exit_code>>
    /\ otherWrote' = FALSE /\ changedAfterPut' = FALSE
    /\ UNCHANGED <<ACCESS_KEY, SECRET_KEY, BUCKET_NAME, local_file, remote_name,
                   ttl, q, token, stdout>>
    /\ UNCHANGED <<env, pyver, sys_argv, fs, callContent, checkContent,
                   bucketAtReturn>>

\* Faulty variant: the Python 2 branch missing.
KeyMatchesPy3Only(k, rn) == is_py3 => PyEq(k, rn)
\* Lines 42-45: the returned key against remote_name, encoded first under
\* Python 2; no comparison under any other major version.
KeyMatches(k, rn) ==
    IF is_py2 THEN PyEq(PyEncodeUtf8(k), rn)
    ELSE IF is_py3 THEN PyEq(k, rn)
    ELSE TRUE

\* Lines 39-45: ret and info are printed; ret['key'] is a TypeError when
\* ret is None; the key assertion.
CheckKey ==
    /\ pc = "check_key"
    /\ stdout' = stdout \o <<DiagLine("ret"), DiagLine("info")>>
    /\ IF ret.t = "none" THEN Raise("TypeError")
       ELSE IF KeyMatches(ret.key, remote_name)
            THEN pc' = "check_hash" /\ UNCHANGED <<exc, exit_code>>
            ELSE Raise("AssertionError")
    /\ UNCHANGED <<ACCESS_KEY, SECRET_KEY, BUCKET_NAME, local_file, remote_name,
                   ttl, q, token, ret>>
    /\ UNCHANGED <<worldVars, obsVars>>

\* Faulty variant: the hash of the file as it was when upload() was called.
LocalHashAtCall(p) ==
    IF callContent = << >> THEN ContentHash(fs[p])
    ELSE ContentHash(callContent[1])
\* etag(local_file): the hash of the file as it is now.
LocalHash(p) == ContentHash(fs[p])

\* Faulty variant: the hash never compared.
HashMatchesAlways(h, p) == TRUE
\* ret['hash'] == etag(local_file)
HashMatches(h, p) == h = LocalHash(p)

\* Line 47: etag() reads the file again (IOError when it is gone) and the
\* returned hash is asserted equal; upload() returns.
CheckHash ==
    /\ pc = "check_hash"
    /\ LET path == OsBytes(local_file)
       IN  IF ~FileExists(path)
           THEN Raise("IOError") /\ UNCHANGED <<checkContent, bucketAtReturn>>
           ELSE /\ checkContent' = <<fs[path]>>
                /\ IF HashMatches(ret.hash, path)
                   THEN /\ pc' = "print_url"
                        /\ bucketAtReturn' = ObjectState(WireKey(remote_name))
                        /\ UNCHANGED <<exc, exit_code>>
                   ELSE Raise("AssertionError") /\ UNCHANGED bucketAtReturn
    /\ UNCHANGED <<ACCESS_KEY, SECRET_KEY, BUCKET_NAME, local_file, remote_name,
                   ttl, q, token, ret, stdout>>
    /\ UNCHANGED <<worldVars, calls, callContent, putContent, otherWrote,
                   changedAfterPut>>

\* Faulty variant: the URL of the local file's name.
UrlOfLocalFile == StrFormat(UrlTemplate, local_file)
\* "https://charts.pingcap.org/{}".format(remote_name)
Url == StrFormat(UrlTemplate, remote_name)

\* Line 54: the URL is printed and the script ends; exit status 0.
PrintUrl ==
    /\ pc = "print_url"
    /\ stdout' = Append(stdout, UrlLine(Url))
    /\ pc' = "exited" /\ exit_code' = 0 /\ exc' = ""
    /\ UNCHANGED <<ACCESS_KEY, SECRET_KEY, BUCKET_NAME, local_file, remote_name,
                   ttl, q, token, ret>>
    /\ UNCHANGED <<worldVars, obsVars>>

\* ------------------------------------------------------ the other actors
InUpload == pc \in {"upload_token", "put_file", "check_key", "check_hash",
                    "print_url"}

\* Another process rewrites or removes the file being uploaded while
\* upload() runs.
FileChange ==
    /\ InUpload
    /\ LET p == OsBytes(local_file)
       IN  \/ \E c \in Contents : FileState(p) # <<c>> /\ fs' = Put(fs, p, c)
           \/ FileExists(p) /\ fs' = Remove(fs, p)
    /\ changedAfterPut' = (changedAfterPut \/ pc \in {"check_key", "check_hash"})
    /\ UNCHANGED <<env, pyver, sys_argv, bucket, procVars>>
    /\ UNCHANGED <<calls, callContent, putContent, checkContent, bucketAtReturn,
                   otherWrote>>

\* Another uploader instance writes an object under the same key while
\* upload() runs.
OtherUploader ==
    /\ InUpload
    /\ LET k == WireKey(remote_name)
       IN  \E c \in Contents :
             /\ ObjectState(k) # <<c>>
             /\ bucket' = Put(bucket, k, c)
    /\ otherWrote' = (otherWrote \/ pc \in {"check_key", "check_hash"})
    /\ UNCHANGED <<env, pyver, sys_argv, fs, procVars>>
    /\ UNCHANGED <<calls, callContent, putContent, checkContent, bucketAtReturn,
                   changedAfterPut>>

Next ==
    \/ LoadCredentials
    \/ ReadArgs
    \/ UploadBegin
    \/ UploadToken
    \/ PutFile
    \/ CheckKey
    \/ CheckHash
    \/ PrintUrl
    \/ FileChange
    \/ OtherUploader

Spec == Init /\ [][Next]_vars

\* ------------------------------------------------------------ observations
\* What the properties below are stated in: the inputs as the OS gave them,
\* the call log, the output, the exit status.
Exited == pc = "exited"
Succeeded == Exited /\ exit_code = 0
Failed == Exited /\ exit_code # 0
\* upload() has returned to its caller without an error.
UploadReturned == pc = "print_url" \/ Succeeded
UrlPrinted == \E i \in 1..Len(stdout) : stdout[i].kind = "url"
IsMissing(n) == ~env[n].set \/ env[n].v = << >>
CredsMissing == \E n \in EnvNames : IsMissing(n)
\* The command-line arguments proper, as bytes.
NumArgs == Len(sys_argv) - 1
LocalFileArg == sys_argv[2]
RemoteNameArg == sys_argv[3]
PutFileCalled == \E i \in 1..Len(calls) : calls[i].fn = "put_file"
\* The upload primitive gave a result (not None, no exception).
PutFileGaveResult == PutFileCalled /\ ret.t = "dict"
\* The returned key is remote_name, byte for byte.
ReturnedKeyEqual == PutFileGaveResult /\ Utf8Encode(ret.key.v) = RemoteNameArg
\* The hash check ran and the returned hash is the hash of what it read.
ReturnedHashEqual ==
    /\ PutFileGaveResult
    /\ checkContent # << >>
    /\ ret.hash = ContentHash(checkContent[1])
\* The service stored and answered for exactly what put_file read and sent.
ServiceFaithful ==
    /\ PutFileGaveResult
    /\ putContent # << >>
    /\ ret.hash = ContentHash(putContent[1])
\* "https://charts.pingcap.org/"
UrlPrefix ==
    <<104, 116, 116, 112, 115, 58, 47, 47, 99, 104, 97, 114, 116, 115, 46,
      112, 105, 110, 103, 99, 97, 112, 46, 111, 114, 103, 47>>

\* ------------------------------------------------------------------ claims
\* C1: with any of the three environment variables unset or empty, the run
\* goes from its start straight to an exit with status 1 on the assertion of
\* line 27, and no token or upload call is ever made.
C1_MissingCredentialsNoNetwork ==
    CredsMissing =>
        /\ calls = << >>
        /\ pc \in {"start", "exited"}
        /\ Exited => exit_code = 1 /\ exc = "AssertionError"

\* C1 witness: only the bucket name is missing (set, but empty) and the run
\* has ended on the assertion.
C1_Witness ==
    /\ Exited /\ exc = "AssertionError"
    /\ env["QINIU_BUCKET_NAME"] = EnvValue(<< >>)
    /\ ~IsMissing("QINIU_ACCESS_KEY") /\ ~IsMissing("QINIU_SECRET_KEY")
    /\ NumArgs >= 2

\* C2: the URL line is printed only after the upload call gave a result and
\* both the key and the hash of that result were equal to what was expected;
\* a run that ends in an error has not printed it.
C2_NoPartialSuccess ==
    /\ UrlPrinted => PutFileGaveResult /\ ReturnedKeyEqual /\ ReturnedHashEqual
    /\ Failed => ~UrlPrinted
    /\ exc # "" => ~UrlPrinted

\* C2 witness: the URL has been printed.
C2_Witness == UrlPrinted /\ Succeeded

\* C3: when upload() has returned without error the returned key is
\* remote_name byte for byte; a result whose key differs never gets past the
\* key check, which ends the run with an AssertionError.
C3_ReturnedKeyChecked ==
    /\ (pc = "check_hash" \/ UploadReturned) => ReturnedKeyEqual
    /\ (PutFileGaveResult /\ ~ReturnedKeyEqual) =>
           /\ pc \in {"check_key", "exited"}
           /\ Exited => exit_code = 1 /\ exc = "AssertionError"

\* C3 witness: the remote name is "b/é", the service answered with another
\* key, under Python 2, and the run ended on the assertion.
C3_Witness ==
    /\ PutFileGaveResult /\ ~ReturnedKeyEqual
    /\ RemoteNameArg = <<98, 47, 195, 169>>
    /\ Exited /\ exc = "AssertionError" /\ is_py2

\* C4 as stated: when upload() was called on an existing file, the service
\* was faithful and upload() has returned without error, the returned hash
\* is the hash of the bytes local_file had when upload() was called, and the
\* file was not changed after put_file read it (such a change makes upload()
\* fail).
C4_HashOfBytesAtCallTime ==
    (UploadReturned /\ callContent # << >> /\ ServiceFaithful) =>
        /\ ret.hash = ContentHash(callContent[1])
        /\ ~changedAfterPut

\* C4 as amended: when upload() has returned without error the returned hash
\* is the hash of the bytes local_file holds when the hash check reads it;
\* and when the check reads other bytes than put_file read and the service
\* returned the hash of what put_file read, upload() fails on the assertion.
C4_HashOfBytesAtCheck ==
    /\ UploadReturned =>
           checkContent # << >> /\ ret.hash = ContentHash(checkContent[1])
    /\ (ServiceFaithful /\ checkContent # << >> /\ checkContent # putContent)
       => (Exited /\ exit_code = 1 /\ exc = "AssertionError")

\* C4 witness: upload() has returned although the file was changed and
\* changed back between put_file and the hash check.
C4_Witness ==
    /\ UploadReturned /\ changedAfterPut
    /\ checkContent = putContent

C6_ExactArguments ==
    \A i \in 1..Len(calls) :
        /\ calls[i].fn = "upload_token" =>
               calls[i].args = <<NativeStr(env["QINIU_BUCKET_NAME"].v),
                                 NativeStr(RemoteNameArg), 3600>>
        /\ calls[i].fn = "put_file" =>
               /\ i > 1
               /\ calls[i - 1].fn = "upload_token"
               /\ calls[i].args[1].t = "token"
               /\ calls[i].args[1].scope = calls[i - 1].args
               /\ calls[i].args[2] = NativeStr(RemoteNameArg)
               /\ calls[i].args[3] = NativeStr(LocalFileArg)

\* C6 witness: both calls have been made, with a local file and a remote
\* name that differ.
C6_Witness ==
    /\ Len(calls) = 2
    /\ LocalFileArg # RemoteNameArg

\* C7: a run that succeeds has as its last output line the bytes of
\* "https://charts.pingcap.org/" followed by the bytes of remote_name.
C7_FinalLineIsUrl ==
    Succeeded =>
        /\ stdout # << >>
        /\ stdout[Len(stdout)].kind = "url"
        /\ stdout[Len(stdout)].bytes = UrlPrefix \o RemoteNameArg
        /\ \A i \in 1..(Len(stdout) - 1) : stdout[i].kind # "url"

\* C7 witness: a successful run with the arguments "video.mp4" and
\* "videos/demo.mp4", which has printed
\* "https://charts.pingcap.org/videos/demo.mp4".
C7_Witness ==
    /\ Succeeded
    /\ LocalFileArg = <<118, 105, 100, 101, 111, 46, 109, 112, 52>>
    /\ RemoteNameArg =
           <<118, 105, 100, 101, 111, 115, 47, 100, 101, 109, 111, 46, 109, 112, 52>>
    /\ stdout[Len(stdout)].bytes =
           <<104, 116, 116, 112, 115, 58, 47, 47, 99, 104, 97, 114, 116, 115, 46,
             112, 105, 110, 103, 99, 97, 112, 46, 111, 114, 103, 47,
             118, 105, 100, 101, 111, 115, 47, 100, 101, 109, 111, 46, 109, 112,
             52>>

\* C8: a run with zero or one arguments exits with status 1 from lines 50-51
\* at the latest, and makes no token or upload call.
C8_TooFewArguments ==
    NumArgs <= 1 =>
        /\ calls = << >>
        /\ pc \in {"start", "main", "exited"}
        /\ Exited => exit_code = 1

\* C8 witness: one argument, credentials present, ended by the IndexError.
C8_Witness ==
    /\ NumArgs = 1 /\ ~CredsMissing
    /\ Exited /\ exc = "IndexError"

\* C9: the calls of a run are at most one token call followed by at most one
\* upload call, which uses the token of that token call; a run that has
\* ended has made no more.
C9_NoRetry ==
    /\ Len(calls) <= 2
    /\ Len(calls) >= 1 => calls[1].fn = "upload_token"
    /\ Len(calls) = 2 =>
           /\ calls[2].fn = "put_file"
           /\ calls[2].args[1].t = "token"
           /\ calls[2].args[1].scope = calls[1].args

\* C9 witness: the upload gave no result, the run has ended with that error
\* and made one call of each.
C9_Witness ==
    /\ Exited /\ exc = "TypeError"
    /\ ret.t = "none"
    /\ Len(calls) = 2

\* C10: a run that has ended has status 0 exactly when the upload gave a
\* result whose key and hash were both equal to what was expected; it has
\* status 1 with missing credentials, an unreadable file, a failed upload,
\* another key or another hash; and every exception ends the run with
\* status 1.
C10_ExitStatus ==
    /\ Exited =>
           /\ exit_code \in {0, 1}
           /\ exit_code = 0 <=> (ReturnedKeyEqual /\ ReturnedHashEqual)
           /\ CredsMissing => exit_code = 1
           /\ exit_code = 1 <=> exc # ""
    /\ exc # "" => Exited

\* C10 witness: the file was removed before the hash check read it, and the
\* run ended with status 1.
C10_Witness ==
    /\ Exited /\ exit_code = 1 /\ exc = "IOError"
    /\ ReturnedKeyEqual

====
